---- MODULE Spec2Model ----
(***************************************************************************)
(* State-machine model of src/turtle_adventure.py: the game session        *)
(* (TurtleAdventureGame), its entities (Player, Waypoint, Home, the three  *)
(* enemy strategies) and the enemy spawner (EnemyGenerator), driven by the *)
(* per-frame loop and the delayed callbacks of the tkinter event loop.     *)
(*                                                                         *)
(* Units.  Coordinates are pixels on the integer grid; a movement          *)
(* component (dif/dist)*step is truncated toward zero to that grid (it is  *)
(* exact whenever the movement is axis-aligned).  delta_time is carried in *)
(* milliseconds, so "dt seconds" of the source is dt/MsPerSecond.  Timer   *)
(* delays are milliseconds, as in Tk's after().                            *)
(***************************************************************************)
EXTENDS Integers, Sequences, FiniteSets, TLC

(* ----------------------------------------------------------------------- *)
(* Program constants                                                       *)
(* ----------------------------------------------------------------------- *)
ScreenWidth == 205      \* screen_width the session is constructed with
ScreenHeight == 100     \* screen_height the session is constructed with
InitLevel == 1          \* level the session is constructed with (default)
HomeOffset == 100       \* home.x = screen_width - 100
HomeSize == 20
PlayerSpeed == 180
PlayerStartX == 50
HitPadding == 9         \* hits_player: size/2 + 9
CapacityPerLevel == 3   \* enemies_to_spawn = 3 * level
SpawnWindow == 3000     \* delay = int(3000 / enemies_to_spawn)
WinDelay == 2000        \* after(2000, ... new_game())
MsPerSecond == 1000

(* ----------------------------------------------------------------------- *)
(* Bounds of the model                                                     *)
(* ----------------------------------------------------------------------- *)
MaxLevel == 2           \* new_game() is explored while level < MaxLevel
MaxFrames == 4          \* frames of the loop explored in one session
MaxSpawned == 5         \* enemy objects constructed in one session

\* delta_time values (ms) the frame loop passes to update()
DeltaTimes == {250}

\* click positions delivered by <Button-1>
Clicks == { <<ScreenWidth - HomeOffset, ScreenHeight \div 2>>,
            <<0, ScreenHeight \div 2>> }

\* successive outcomes of (randint(0, screen_width), randint(0, screen_height))
\* offered to a re-targeting RandomWalkEnemy; the four screen corners are the
\* points farthest from any position on the screen
RandSeq == << <<0, 0>>, <<ScreenWidth, ScreenHeight>> >>

Sq(n) == n * n

HomeX == ScreenWidth - HomeOffset

HomeY == ScreenHeight \div 2

PlayerStartY == ScreenHeight \div 2

(* ----------------------------------------------------------------------- *)
(* Outcomes of the random choices of one create_enemy() call               *)
(*   kind, size, speed      : choice / randint in create_enemy             *)
(*   cx, cy                 : constructor's randint position               *)
(*   tarx, tary             : RandomWalkEnemy's first target               *)
(*   corner, dir, radius    : FencingEnemy's randint / choice              *)
(*   coin, side, along      : generate_spawnpos' choice, choice, randint   *)
(* ----------------------------------------------------------------------- *)
EnemyDraws ==
  { [kind |-> "Chasing", size |-> 30, speed |-> 160, cx |-> 100, cy |-> 50,
     tarx |-> 0, tary |-> 0, corner |-> 0, dir |-> FALSE, radius |-> 0,
     coin |-> TRUE, side |-> 0, along |-> 50],
    [kind |-> "RandomWalk", size |-> 20, speed |-> 180, cx |-> 10, cy |-> 10,
     tarx |-> 0, tary |-> 0, corner |-> 0, dir |-> FALSE, radius |-> 0,
     coin |-> FALSE, side |-> 0, along |-> 205],
    [kind |-> "Fencing", size |-> 15, speed |-> 160, cx |-> 100, cy |-> 50,
     tarx |-> 0, tary |-> 0, corner |-> 1, dir |-> TRUE, radius |-> 100,
     coin |-> TRUE, side |-> 1, along |-> 100] }

VARIABLES
  level,       \* TurtleAdventureGame.level
  gen_level,   \* EnemyGenerator.__level
  player,      \* Player position (the turtle's xcor/ycor)
  waypoint,    \* Waypoint: active flag and position
  enemies,     \* TurtleAdventureGame.enemies
  elements,    \* Game's registered elements, in registration order
  running,     \* Game's per-frame loop is started and not stopped
  faulted,     \* an update() raised during the last pass of the loop
  timers,      \* pending after() callbacks, in registration order
  next_id,     \* identity of the next enemy object
  started,     \* start_game() has been called on the new session
  lost,        \* game_over_lose() has been called
  wins,        \* game_over_win() calls since the level began
  frames,      \* frames the loop has run (bounds the exploration)
  ev           \* what the last operation did (observation only)

vars == <<level, gen_level, player, waypoint, enemies, elements, running,
          faulted, timers, next_id, started, lost, wins, frames, ev>>

\* observation record of an operation that has not acted yet
NoEv ==
  [op |-> "none", dt |-> 0,
   win_calls |-> 0, lose_calls |-> 0,
   hit_at_start |-> FALSE, home_at_update |-> FALSE,
   player_moved |-> FALSE, waypoint_changed |-> FALSE,
   hitter_moved |-> FALSE, moved_after_lose |-> FALSE,
   sched_level |-> 0, count_before |-> 0, added |-> 0, scheduled |-> 0,
   lost_before |-> FALSE, pre_spawn_enemies |-> 0, pre_spawn_registered |-> 0,
   level_before |-> 0, pre_dist_sq |-> 0,
   coincident |-> FALSE, coincident_moved |-> FALSE, enemy_moved |-> FALSE,
   arrivals |-> {}, stepped |-> {}]

\* the session as one record, so that the handlers below are functions on it
Cur ==
  [level |-> level, gen_level |-> gen_level, player |-> player,
   waypoint |-> waypoint, enemies |-> enemies, elements |-> elements,
   running |-> running, faulted |-> faulted, timers |-> timers,
   next_id |-> next_id, started |-> started, lost |-> lost, wins |-> wins,
   frames |-> frames, ev |-> ev]

\* the element of a one-element set (each stage of a handler is evaluated once)
Only(S) == CHOOSE r \in S : TRUE

Install(h) ==
  \E g \in {h} :
    /\ level' = g.level
    /\ gen_level' = g.gen_level
    /\ player' = g.player
    /\ waypoint' = g.waypoint
    /\ enemies' = g.enemies
    /\ elements' = g.elements
    /\ running' = g.running
    /\ faulted' = g.faulted
    /\ timers' = g.timers
    /\ next_id' = g.next_id
    /\ started' = g.started
    /\ lost' = g.lost
    /\ wins' = g.wins
    /\ frames' = g.frames
    /\ ev' = g.ev

(* ----------------------------------------------------------------------- *)
(* Geometry                                                                *)
(* ----------------------------------------------------------------------- *)
\* squared distance between (x1, y1) and (x2, y2)
DistSq(x1, y1, x2, y2) == Sq(x1 - x2) + Sq(y1 - y2)

\* distance covered in one update: speed * delta_time
StepOf(speed, dt) == (speed * dt) \div MsPerSecond

\* (dif / dist) * step for dist = sqrt(d2) > 0, truncated toward zero
MoveComp(dif, step, d2) ==
  LET m == CHOOSE r \in 0..step :
             /\ Sq(r) * d2 <= Sq(dif * step)
             /\ Sq(r + 1) * d2 > Sq(dif * step)
  IN IF dif < 0 THEN -m ELSE m

\* dist_sq < delta_time * speed**2, the arrival threshold of the enemies
Arrived(d2, speed, dt) == d2 * MsPerSecond < dt * Sq(speed)

\* Home.contains(x, y): x1 <= x <= x2 and y1 <= y <= y2 with half-size margins
HomeContains(x, y) ==
  /\ 2 * HomeX - HomeSize <= 2 * x
  /\ 2 * x <= 2 * HomeX + HomeSize
  /\ 2 * HomeY - HomeSize <= 2 * y
  /\ 2 * y <= 2 * HomeY + HomeSize

\* Enemy.hits_player(): dx**2 + dy**2 <= (size/2 + 9)**2
HitsPlayer(e, plr) ==
  4 * DistSq(e.x, e.y, plr.x, plr.y) <= Sq(e.size + 2 * HitPadding)

(* ----------------------------------------------------------------------- *)
(* Game (the frame that owns the loop, the elements and the timers)        *)
(* ----------------------------------------------------------------------- *)
\* Game.start(): begin the per-frame loop
GameStart(g) == [g EXCEPT !.running = TRUE, !.faulted = FALSE]

\* Game.stop(): halt the per-frame loop
GameStop(g) == [g EXCEPT !.running = FALSE]

\* Game.add_element(element)
AddElement(g, el) == [g EXCEPT !.elements = Append(@, el)]

\* Game.delete_element(element)
DeleteElement(g, el) ==
  [g EXCEPT !.elements = SelectSeq(@, LAMBDA x : x # el)]

\* after(delay, callback); sched_level notes the level at scheduling time
After(g, delay, cb) ==
  [g EXCEPT !.timers =
     Append(@, [cb |-> cb, remaining |-> delay, sched_level |-> g.level])]

\* number of pending callbacks of one kind
Pending(ts, cb) == Cardinality({i \in 1..Len(ts) : ts[i].cb = cb})

(* ----------------------------------------------------------------------- *)
(* Session: win and lose                                                   *)
(* ----------------------------------------------------------------------- *)
\* game_over_win() without its self.stop()
GameOverWinNoStop(g) ==
  LET g2 == After(g, WinDelay, "new_game")
  IN [g2 EXCEPT !.wins = @ + 1, !.ev.win_calls = @ + 1]

\* TurtleAdventureGame.game_over_win()
GameOverWin(g) ==
  LET g1 == GameStop(g)
      g2 == After(g1, WinDelay, "new_game")
  IN [g2 EXCEPT !.wins = @ + 1, !.ev.win_calls = @ + 1]

\* TurtleAdventureGame.game_over_lose()
GameOverLose(g) ==
  LET g1 == GameStop(g)
  IN [g1 EXCEPT !.lost = TRUE, !.ev.lose_calls = @ + 1]

(* ----------------------------------------------------------------------- *)
(* Waypoint and Player                                                     *)
(* ----------------------------------------------------------------------- *)
\* Waypoint.activate(x, y)
WaypointActivate(g, x, y) ==
  [g EXCEPT !.waypoint = [active |-> TRUE, x |-> x, y |-> y]]

\* Waypoint.deactivate()
WaypointDeactivate(g) == [g EXCEPT !.waypoint.active = FALSE]

\* turtle.setheading(turtle.towards(x, y)); turtle.forward(step):
\* towards() of the turtle's own position is heading 0, the +x direction
TurtleForward(p, x, y, step) ==
  LET d2 == DistSq(x, y, p.x, p.y)
  IN IF d2 = 0
     THEN [x |-> p.x + step, y |-> p.y]
     ELSE [x |-> p.x + MoveComp(x - p.x, step, d2),
           y |-> p.y + MoveComp(y - p.y, step, d2)]

\* Player.update() with the arrival test made before turtle.forward()
PlayerUpdatePreMoveTest(g, dt) ==
  LET home == HomeContains(g.player.x, g.player.y)
      g1 == IF home THEN GameOverWin(g) ELSE g
      g2 == [g1 EXCEPT !.ev.home_at_update = home]
      wp == g2.waypoint
      delta_dis == StepOf(PlayerSpeed, dt)
      pos == TurtleForward(g2.player, wp.x, wp.y, delta_dis)
      g3 == [g2 EXCEPT !.player = pos,
                       !.ev.pre_dist_sq =
                          DistSq(g2.player.x, g2.player.y, wp.x, wp.y),
                       !.ev.player_moved = (pos # g2.player),
                       !.ev.moved_after_lose =
                          @ \/ (g2.ev.lose_calls > 0 /\ pos # g2.player)]
      g4 == IF DistSq(g2.player.x, g2.player.y, wp.x, wp.y) <= Sq(delta_dis)
            THEN [WaypointDeactivate(g3) EXCEPT !.ev.waypoint_changed = TRUE]
            ELSE g3
  IN IF wp.active THEN g4 ELSE g2

\* Player.update(delta_time)
PlayerUpdate(g, dt) ==
  LET home == HomeContains(g.player.x, g.player.y)
      g1 == IF home THEN GameOverWin(g) ELSE g
      g2 == [g1 EXCEPT !.ev.home_at_update = home]
      wp == g2.waypoint
      delta_dis == StepOf(PlayerSpeed, dt)
      pos == TurtleForward(g2.player, wp.x, wp.y, delta_dis)
      g3 == [g2 EXCEPT !.player = pos,
                       !.ev.pre_dist_sq =
                          DistSq(g2.player.x, g2.player.y, wp.x, wp.y),
                       !.ev.player_moved = (pos # g2.player),
                       !.ev.moved_after_lose =
                          @ \/ (g2.ev.lose_calls > 0 /\ pos # g2.player)]
      g4 == IF DistSq(pos.x, pos.y, wp.x, wp.y) <= Sq(delta_dis)
            THEN [WaypointDeactivate(g3) EXCEPT !.ev.waypoint_changed = TRUE]
            ELSE g3
  IN IF wp.active THEN g4 ELSE g2

(* ----------------------------------------------------------------------- *)
(* Enemies                                                                 *)
(* ----------------------------------------------------------------------- *)
\* index of the enemy object `id` in g.enemies
EnemyIndex(g, id) == CHOOSE i \in 1..Len(g.enemies) : g.enemies[i].id = id

\* The tail shared by the three update() methods, from "dist = sqrt(...)":
\* move by speed * delta_time toward (tx, ty), then test hits_player().
\* dist = 0 makes dif_x / dist raise ZeroDivisionError before any assignment.
MoveAndCheck(g, i, tx, ty, dt) ==
  LET e == g.enemies[i]
      d2 == DistSq(tx, ty, e.x, e.y)
      step == StepOf(e.speed, dt)
      nx == e.x + MoveComp(tx - e.x, step, d2)
      ny == e.y + MoveComp(ty - e.y, step, d2)
      moved == (nx # e.x) \/ (ny # e.y)
      g1 == [g EXCEPT !.enemies[i].x = nx, !.enemies[i].y = ny,
                      !.ev.moved_after_lose = @ \/ (g.ev.lose_calls > 0 /\ moved)]
  IN IF d2 = 0
     THEN [g EXCEPT !.faulted = TRUE]
     ELSE IF HitsPlayer(g1.enemies[i], g1.player)
          THEN [GameOverLose(g1) EXCEPT !.ev.hitter_moved = @ \/ moved]
          ELSE g1

\* the RandSeq entries from position k on, cyclically, that are not within the
\* arrival threshold of e: the draws on which the re-targeting recursion ends
FarDraws(e, dt, k) ==
  LET n == Len(RandSeq)
      at(j) == RandSeq[((k + j - 1) % n) + 1]
  IN SelectSeq([j \in 1..n |-> at(j - 1)],
               LAMBDA p : ~Arrived(DistSq(p[1], p[2], e.x, e.y), e.speed, dt))

\* RandomWalkEnemy.update(delta_time).  Each recursion overwrites the target
\* with a fresh draw, so only the draw that ends the recursion is kept; when
\* no point of the screen ends it the recursion overflows (RecursionError).
RandomWalkUpdate(g, i, dt, k) ==
  LET e == g.enemies[i]
      far == FarDraws(e, dt, k)
  IN IF Arrived(DistSq(e.tarx, e.tary, e.x, e.y), e.speed, dt)
     THEN IF far = << >>
          THEN [g EXCEPT !.faulted = TRUE,
                         !.enemies[i].tarx = RandSeq[k][1],
                         !.enemies[i].tary = RandSeq[k][2]]
          ELSE MoveAndCheck([g EXCEPT !.enemies[i].tarx = far[1][1],
                                      !.enemies[i].tary = far[1][2]],
                            i, far[1][1], far[1][2], dt)
     ELSE MoveAndCheck(g, i, e.tarx, e.tary, dt)

\* ChasingEnemy.update(delta_time)
ChasingUpdate(g, i, dt) == MoveAndCheck(g, i, g.player.x, g.player.y, dt)

\* FencingEnemy's target for corner index c:
\* home + radius * ((-1, 1, 1, -1)[c], (-1, 1)[c // 2])
CornerX(e, c) == HomeX + e.radius * (IF c \in {1, 2} THEN 1 ELSE -1)

CornerY(e, c) == HomeY + e.radius * (IF c \div 2 = 1 THEN 1 ELSE -1)

\* the corner advance with the direction ignored: always + 1
NextCornerIgnoresDir(e, c) == (c + 1) % 4

\* (self.__tar_corner + (1, -1)[self.__dir]) % 4
NextCorner(e, c) == (c + (IF e.dir THEN -1 ELSE 1)) % 4

\* the number of times FencingEnemy.update advances the corner index before
\* it moves (4 stands for the recursion that never ends)
RECURSIVE FencingArrivals(_, _, _, _)
FencingArrivals(e, c, dt, n) ==
  IF n = 4 THEN 4
  ELSE IF Arrived(DistSq(CornerX(e, c), CornerY(e, c), e.x, e.y), e.speed, dt)
       THEN FencingArrivals(e, NextCorner(e, c), dt, n + 1)
       ELSE n

\* the corner FencingEnemy.update settles on after n re-targetings, or -1
\* when all four corners are within the arrival threshold (the recursion
\* then never ends: RecursionError)
RECURSIVE FencingSeek(_, _, _, _)
FencingSeek(e, c, dt, n) ==
  IF n = 4 THEN -1
  ELSE IF Arrived(DistSq(CornerX(e, c), CornerY(e, c), e.x, e.y), e.speed, dt)
       THEN FencingSeek(e, NextCorner(e, c), dt, n + 1)
       ELSE c

\* FencingEnemy.update(delta_time)
FencingUpdate(g, i, dt) ==
  LET e == g.enemies[i]
      c == FencingSeek(e, e.corner, dt, 0)
  IN IF c = -1
     THEN [g EXCEPT !.faulted = TRUE]
     ELSE MoveAndCheck([g EXCEPT !.enemies[i].corner = c],
                       i, CornerX(e, c), CornerY(e, c), dt)

\* the point the enemy e heads for when its update() begins
TargetX(g, e) ==
  CASE e.kind = "RandomWalk" -> e.tarx
    [] e.kind = "Chasing" -> g.player.x
    [] e.kind = "Fencing" -> CornerX(e, e.corner)

TargetY(g, e) ==
  CASE e.kind = "RandomWalk" -> e.tary
    [] e.kind = "Chasing" -> g.player.y
    [] e.kind = "Fencing" -> CornerY(e, e.corner)

\* update() of the enemy object `id`, dispatched on its class; ev records
\* whether the enemy began on its target, whether it moved, how often a
\* FencingEnemy advanced its corner, and whether the call returned
EnemyUpdate(g, id, dt, k) ==
  LET i == EnemyIndex(g, id)
      e == g.enemies[i]
      kind == e.kind
      co == DistSq(TargetX(g, e), TargetY(g, e), e.x, e.y) = 0
      r == CASE kind = "RandomWalk" -> RandomWalkUpdate(g, i, dt, k)
             [] kind = "Chasing" -> ChasingUpdate(g, i, dt)
             [] kind = "Fencing" -> FencingUpdate(g, i, dt)
      moved == (r.enemies[i].x # e.x) \/ (r.enemies[i].y # e.y)
  IN [r EXCEPT !.ev.coincident = @ \/ co,
               !.ev.coincident_moved = @ \/ (co /\ moved),
               !.ev.enemy_moved = @ \/ moved,
               !.ev.arrivals = @ \cup (IF kind = "Fencing"
                                        THEN {<<id, FencingArrivals(e, e.corner, dt, 0)>>}
                                        ELSE {}),
               !.ev.stepped = @ \cup (IF r.faulted THEN {} ELSE {id})]

(* ----------------------------------------------------------------------- *)
(* EnemyGenerator                                                          *)
(* ----------------------------------------------------------------------- *)
\* EnemyGenerator.generate_spawnpos() on the outcomes d of its random choices
GenerateSpawnpos(d) ==
  IF d.coin
  THEN <<IF d.side = 0 THEN 0 ELSE ScreenWidth, d.along>>
  ELSE <<d.along, IF d.side = 0 THEN 0 ELSE ScreenHeight>>

\* the enemy constructors: enemy_type(game, size, color, speed=...)
NewEnemy(g, d) ==
  [id |-> g.next_id, kind |-> d.kind, size |-> d.size, speed |-> d.speed,
   x |-> d.cx, y |-> d.cy, tarx |-> d.tarx, tary |-> d.tary,
   corner |-> d.corner, dir |-> d.dir, radius |-> d.radius]

\* TurtleAdventureGame.add_enemy(enemy)
AddEnemy(g, e) ==
  AddElement([g EXCEPT !.enemies = Append(@, e)],
             [kind |-> "enemy", id |-> e.id])

\* create_enemy() without "new_enemy.x, new_enemy.y = self.generate_spawnpos()"
CreateEnemyKeepsConstructorPos(g, d) ==
  LET enemies_to_spawn == CapacityPerLevel * g.gen_level
      delay == SpawnWindow \div enemies_to_spawn
      g1 == AddEnemy([g EXCEPT !.next_id = @ + 1], NewEnemy(g, d))
      g2 == After(g1, delay, "create_enemy")
  IN IF Len(g.enemies) >= enemies_to_spawn
     THEN g
     ELSE [g2 EXCEPT !.ev.added = @ + 1, !.ev.scheduled = @ + 1]

\* create_enemy() without "self.game.after(delay, self.create_enemy)"
CreateEnemyNoReschedule(g, d) ==
  LET enemies_to_spawn == CapacityPerLevel * g.gen_level
      pos == GenerateSpawnpos(d)
      new_enemy == [NewEnemy(g, d) EXCEPT !.x = pos[1], !.y = pos[2]]
      g1 == AddEnemy([g EXCEPT !.next_id = @ + 1], new_enemy)
  IN IF Len(g.enemies) >= enemies_to_spawn
     THEN g
     ELSE [g1 EXCEPT !.ev.added = @ + 1]

\* create_enemy() with the capacity test written "len(...) > enemies_to_spawn"
CreateEnemyOffByOne(g, d) ==
  LET enemies_to_spawn == CapacityPerLevel * g.gen_level
      delay == SpawnWindow \div enemies_to_spawn
      pos == GenerateSpawnpos(d)
      new_enemy == [NewEnemy(g, d) EXCEPT !.x = pos[1], !.y = pos[2]]
      g1 == AddEnemy([g EXCEPT !.next_id = @ + 1], new_enemy)
      g2 == After(g1, delay, "create_enemy")
  IN IF Len(g.enemies) > enemies_to_spawn
     THEN g
     ELSE [g2 EXCEPT !.ev.added = @ + 1, !.ev.scheduled = @ + 1]

\* create_enemy() that reschedules itself before the capacity test
CreateEnemyReschedulesFirst(g, d) ==
  LET enemies_to_spawn == CapacityPerLevel * g.gen_level
      delay == SpawnWindow \div enemies_to_spawn
      pos == GenerateSpawnpos(d)
      new_enemy == [NewEnemy(g, d) EXCEPT !.x = pos[1], !.y = pos[2]]
      g0 == [After(g, delay, "create_enemy") EXCEPT !.ev.scheduled = @ + 1]
      g1 == AddEnemy([g0 EXCEPT !.next_id = @ + 1], new_enemy)
  IN IF Len(g.enemies) >= enemies_to_spawn
     THEN g0
     ELSE [g1 EXCEPT !.ev.added = @ + 1]

\* EnemyGenerator.create_enemy() on the outcomes d of its random choices
CreateEnemy(g, d) ==
  LET enemies_to_spawn == CapacityPerLevel * g.gen_level
      delay == SpawnWindow \div enemies_to_spawn
      pos == GenerateSpawnpos(d)
      new_enemy == [NewEnemy(g, d) EXCEPT !.x = pos[1], !.y = pos[2]]
      g1 == AddEnemy([g EXCEPT !.next_id = @ + 1], new_enemy)
      g2 == After(g1, delay, "create_enemy")
  IN IF Len(g.enemies) >= enemies_to_spawn
     THEN g
     ELSE [g2 EXCEPT !.ev.added = @ + 1, !.ev.scheduled = @ + 1]

(* ----------------------------------------------------------------------- *)
(* Session: start and level transition                                     *)
(* ----------------------------------------------------------------------- *)
\* TurtleAdventureGame.start_game()
StartGame(g, d) ==
  LET g1 == [g EXCEPT !.player = [x |-> PlayerStartX, y |-> PlayerStartY]]
      g2 == GameStart(g1)
  IN CreateEnemy(g2, d)

\* one step of "for enemy in self.enemies: self.delete_element(enemy)"
RECURSIVE DeleteEnemies(_, _)
DeleteEnemies(g, i) ==
  IF i > Len(g.enemies) THEN g
  ELSE DeleteEnemies(
         DeleteElement(g, [kind |-> "enemy", id |-> g.enemies[i].id]), i + 1)

\* enemy entries among the registered elements
RegisteredEnemies(els) ==
  Cardinality({i \in 1..Len(els) : els[i].kind = "enemy"})

\* new_game() that adds 2 to the level
NewGameSkipsLevel(g, d1, d2) ==
  LET g1 == [g EXCEPT !.level = @ + 2]
      g2 == [g1 EXCEPT !.gen_level = g1.level]
      g3 == DeleteEnemies(g2, 1)
      g4 == [g3 EXCEPT !.enemies = << >>]
      g5 == [g4 EXCEPT !.wins = 0,
                       !.ev.pre_spawn_enemies = Len(g4.enemies),
                       !.ev.pre_spawn_registered = RegisteredEnemies(g4.elements)]
  IN Only({StartGame(g6, d2) : g6 \in {CreateEnemy(c, d1) : c \in {g5}}})

\* new_game() without "self.enemy_generator.level = self.level"
NewGameKeepsGeneratorLevel(g, d1, d2) ==
  LET g1 == [g EXCEPT !.level = @ + 1]
      g3 == DeleteEnemies(g1, 1)
      g4 == [g3 EXCEPT !.enemies = << >>]
      g5 == [g4 EXCEPT !.wins = 0,
                       !.ev.pre_spawn_enemies = Len(g4.enemies),
                       !.ev.pre_spawn_registered = RegisteredEnemies(g4.elements)]
  IN Only({StartGame(g6, d2) : g6 \in {CreateEnemy(c, d1) : c \in {g5}}})

\* new_game() without its own self.enemy_generator.create_enemy()
NewGameSingleSpawn(g, d1, d2) ==
  LET g1 == [g EXCEPT !.level = @ + 1]
      g2 == [g1 EXCEPT !.gen_level = g1.level]
      g3 == DeleteEnemies(g2, 1)
      g4 == [g3 EXCEPT !.enemies = << >>]
      g5 == [g4 EXCEPT !.wins = 0,
                       !.ev.pre_spawn_enemies = Len(g4.enemies),
                       !.ev.pre_spawn_registered = RegisteredEnemies(g4.elements)]
  IN StartGame(g5, d2)

\* new_game() without its self.enemies.clear()
NewGameNoClear(g, d1, d2) ==
  LET g1 == [g EXCEPT !.level = @ + 1]
      g2 == [g1 EXCEPT !.gen_level = g1.level]
      g3 == DeleteEnemies(g2, 1)
      g5 == [g3 EXCEPT !.wins = 0,
                       !.ev.pre_spawn_enemies = Len(g3.enemies),
                       !.ev.pre_spawn_registered = RegisteredEnemies(g3.elements)]
      g6 == CreateEnemy(g5, d1)
  IN StartGame(g6, d2)

\* TurtleAdventureGame.new_game(); d1, d2 are the random outcomes of its two
\* create_enemy() calls (its own, and the one inside start_game())
NewGame(g, d1, d2) ==
  LET g1 == [g EXCEPT !.level = @ + 1]
      g2 == [g1 EXCEPT !.gen_level = g1.level]
      g3 == DeleteEnemies(g2, 1)
      g4 == [g3 EXCEPT !.enemies = << >>]
      g5 == [g4 EXCEPT !.wins = 0,
                       !.ev.pre_spawn_enemies = Len(g4.enemies),
                       !.ev.pre_spawn_registered = RegisteredEnemies(g4.elements)]
  IN Only({StartGame(g6, d2) : g6 \in {CreateEnemy(c, d1) : c \in {g5}}})

(* ----------------------------------------------------------------------- *)
(* The per-frame loop                                                      *)
(* ----------------------------------------------------------------------- *)
\* element.update(delta_time), dispatched on the element's class;
\* Waypoint.update and Home.update do nothing
UpdateElement(g, el, dt, k) ==
  CASE el.kind = "waypoint" -> g
    [] el.kind = "home" -> g
    [] el.kind = "player" -> PlayerUpdate(g, dt)
    [] el.kind = "enemy" -> EnemyUpdate(g, el.id, dt, k)

\* one pass of the loop over the registered elements, in registration order;
\* an exception raised by an update() ends the pass
RECURSIVE UpdateAll(_, _, _, _)
UpdateAll(g, i, dt, k) ==
  IF i > Len(g.elements) \/ g.faulted THEN g
  ELSE UpdateAll(UpdateElement(g, g.elements[i], dt, k), i + 1, dt, k)

\* some enemy is within the padded collision radius of the player
SomeEnemyHits(g) ==
  \E i \in 1..Len(g.enemies) : HitsPlayer(g.enemies[i], g.player)

(* ----------------------------------------------------------------------- *)
(* Actions                                                                 *)
(* ----------------------------------------------------------------------- *)
\* state after TurtleAdventureGame(parent, screen_width, screen_height)
Init ==
  /\ level = InitLevel
  /\ gen_level = InitLevel
  /\ player = [x |-> 0, y |-> 0]
  /\ waypoint = [active |-> FALSE, x |-> 0, y |-> 0]
  /\ enemies = << >>
  /\ elements = << [kind |-> "waypoint", id |-> 0], [kind |-> "home", id |-> 0],
                   [kind |-> "player", id |-> 0] >>
  /\ running = FALSE
  /\ faulted = FALSE
  /\ timers = << >>
  /\ next_id = 1
  /\ started = FALSE
  /\ lost = FALSE
  /\ wins = 0
  /\ frames = 0
  /\ ev = NoEv

\* the caller starts the session: game.start_game()
Start ==
  /\ ~started
  /\ \E d \in EnemyDraws :
       Install(StartGame([Cur EXCEPT !.started = TRUE,
                                     !.ev = [NoEv EXCEPT !.op = "start_game",
                                                         !.level_before = level]], d))

\* <Button-1> at p: self.waypoint.activate(e.x, e.y)
Click ==
  \E p \in Clicks :
    Install(WaypointActivate([Cur EXCEPT !.ev = [NoEv EXCEPT !.op = "click"]],
                             p[1], p[2]))

\* one frame: update every element with delta_time dt, then render
Tick ==
  /\ running
  /\ ~faulted
  /\ frames < MaxFrames
  /\ \E dt \in DeltaTimes, k \in 1..Len(RandSeq) :
       Install(UpdateAll([Cur EXCEPT !.frames = @ + 1, !.ev = [NoEv EXCEPT
                                      !.op = "tick", !.dt = dt,
                                      !.hit_at_start = SomeEnemyHits(Cur)]],
                         1, dt, k))

\* position of the callback Tk runs next: the first registered among the due
DueIndex ==
  CHOOSE i \in 1..Len(timers) :
    /\ timers[i].remaining = 0
    /\ \A j \in 1..(i - 1) : timers[j].remaining # 0

TimerDue == \E i \in 1..Len(timers) : timers[i].remaining = 0

\* timers without the one at position i
Without(ts, i) == SubSeq(ts, 1, i - 1) \o SubSeq(ts, i + 1, Len(ts))

\* the session at the moment the due callback starts running
Fired(op) ==
  [Cur EXCEPT !.timers = Without(timers, DueIndex),
              !.ev = [NoEv EXCEPT !.op = op,
                                  !.sched_level = timers[DueIndex].sched_level,
                                  !.count_before = Len(enemies),
                                  !.lost_before = lost,
                                  !.level_before = level]]

\* a scheduled self.create_enemy runs
SpawnCallback ==
  /\ TimerDue
  /\ timers[DueIndex].cb = "create_enemy"
  /\ next_id <= MaxSpawned
  /\ \E d \in EnemyDraws : Install(CreateEnemy(Fired("create_enemy"), d))

\* the callback scheduled by game_over_win runs: delete the text, new_game()
NewGameCallback ==
  /\ TimerDue
  /\ timers[DueIndex].cb = "new_game"
  /\ level < MaxLevel
  /\ next_id < MaxSpawned
  /\ \E d1 \in EnemyDraws, d2 \in EnemyDraws :
       Install(NewGame(Fired("new_game"), d1, d2))

\* time passes until the next pending callback is due
Elapse ==
  /\ timers # << >>
  /\ ~TimerDue
  /\ LET d == CHOOSE m \in {timers[i].remaining : i \in 1..Len(timers)} :
                \A i \in 1..Len(timers) : m <= timers[i].remaining
     IN timers' = [i \in 1..Len(timers) |->
                     [timers[i] EXCEPT !.remaining = @ - d]]
  /\ ev' = [NoEv EXCEPT !.op = "elapse"]
  /\ UNCHANGED <<level, gen_level, player, waypoint, enemies, elements,
                 running, faulted, next_id, started, lost, wins, frames>>

Next == Start \/ Click \/ Tick \/ SpawnCallback \/ NewGameCallback \/ Elapse

Spec == Init /\ [][Next]_vars

(* ----------------------------------------------------------------------- *)
(* The session under Tk's scheduling: a due callback is run, the clock     *)
(* advances to the next pending callback, and the caller starts the        *)
(* session.  Frames and clicks happen or not.  The spawn chain is followed *)
(* to the capacity of every level, with the random choices of LiveDraws.   *)
(* ----------------------------------------------------------------------- *)
LiveDraws == {d \in EnemyDraws : d.kind = "Fencing"}

LiveStart ==
  /\ ~started
  /\ \E d \in LiveDraws :
       Install(StartGame([Cur EXCEPT !.started = TRUE,
                                     !.ev = [NoEv EXCEPT !.op = "start_game",
                                                         !.level_before = level]], d))

LiveSpawnCallback ==
  /\ TimerDue
  /\ timers[DueIndex].cb = "create_enemy"
  /\ \E d \in LiveDraws, f \in {Fired("create_enemy")} :
       Install(CreateEnemy(f, d))

LiveNewGameCallback ==
  /\ TimerDue
  /\ timers[DueIndex].cb = "new_game"
  /\ level < MaxLevel
  /\ \E d1 \in LiveDraws, d2 \in LiveDraws, f \in {Fired("new_game")} :
       Install(NewGame(f, d1, d2))

LiveNext ==
  LiveStart \/ Click \/ Tick \/ LiveSpawnCallback \/ LiveNewGameCallback \/ Elapse

LiveSpec ==
  /\ Init
  /\ [][LiveNext]_vars
  /\ WF_vars(LiveStart)
  /\ WF_vars(LiveSpawnCallback)
  /\ WF_vars(LiveNewGameCallback)
  /\ WF_vars(Elapse)


(* ----------------------------------------------------------------------- *)
(* The session with frames of 0, 278 and 1000 ms and with random outcomes  *)
(* that put an enemy exactly on its target:                                *)
(*   - the ChasingEnemy spawns at (0, 50), where a 278 ms frame takes the  *)
(*     player (50 px at speed 180) after a click on the left edge;         *)
(*   - the RandomWalkEnemy's first target is its own spawn position;       *)
(*   - the FencingEnemy (speed 150, radius 100) spawns 150 px from its     *)
(*     corner (205, -50) and a 1000 ms frame puts it exactly on it.        *)
(* ----------------------------------------------------------------------- *)
UnitMaxFrames == 2

UnitMaxSpawned == 2

UnitDeltaTimes == {0, 278, 1000}

UnitDraws ==
  { [kind |-> "Chasing", size |-> 15, speed |-> 150, cx |-> 100, cy |-> 50,
     tarx |-> 0, tary |-> 0, corner |-> 0, dir |-> FALSE, radius |-> 0,
     coin |-> TRUE, side |-> 0, along |-> 50],
    [kind |-> "RandomWalk", size |-> 20, speed |-> 150, cx |-> 10, cy |-> 10,
     tarx |-> 205, tary |-> 0, corner |-> 0, dir |-> FALSE, radius |-> 0,
     coin |-> FALSE, side |-> 0, along |-> 205],
    [kind |-> "Fencing", size |-> 15, speed |-> 150, cx |-> 100, cy |-> 50,
     tarx |-> 0, tary |-> 0, corner |-> 1, dir |-> TRUE, radius |-> 100,
     coin |-> TRUE, side |-> 1, along |-> 100] }

UnitStart ==
  /\ ~started
  /\ \E d \in UnitDraws :
       Install(StartGame([Cur EXCEPT !.started = TRUE,
                                     !.ev = [NoEv EXCEPT !.op = "start_game",
                                                         !.level_before = level]], d))

UnitTick ==
  /\ running
  /\ ~faulted
  /\ frames < UnitMaxFrames
  /\ \E dt \in UnitDeltaTimes, k \in 1..Len(RandSeq) :
       Install(UpdateAll([Cur EXCEPT !.frames = @ + 1, !.ev = [NoEv EXCEPT
                                      !.op = "tick", !.dt = dt,
                                      !.hit_at_start = SomeEnemyHits(Cur)]],
                         1, dt, k))

UnitSpawnCallback ==
  /\ TimerDue
  /\ timers[DueIndex].cb = "create_enemy"
  /\ next_id <= UnitMaxSpawned
  /\ \E d \in UnitDraws, f \in {Fired("create_enemy")} :
       Install(CreateEnemy(f, d))

\* one level: the callback of a win stays pending
UnitNext == UnitStart \/ Click \/ UnitTick \/ UnitSpawnCallback \/ Elapse

UnitSpec == Init /\ [][UnitNext]_vars

\* shape of the state
TypeOK ==
  /\ level \in InitLevel..MaxLevel
  /\ gen_level \in InitLevel..MaxLevel
  /\ running \in BOOLEAN /\ faulted \in BOOLEAN /\ lost \in BOOLEAN
  /\ \A i \in 1..Len(timers) : timers[i].remaining >= 0
  /\ \A i \in 1..Len(enemies) :
       enemies[i].kind \in {"RandomWalk", "Chasing", "Fencing"}

(* ----------------------------------------------------------------------- *)
(* Claims                                                                  *)
(* ----------------------------------------------------------------------- *)
\* capacity = 3 * level of the session
Capacity == CapacityPerLevel * level

\* C1: in every reachable state the enemy collection holds at most 3 * level
\* enemies.
C1_EnemiesWithinCapacity == Len(enemies) <= Capacity

\* C1 witness: the collection is full and a spawn callback has just run
\* against it without adding.
C1_Witness ==
  /\ Len(enemies) = Capacity
  /\ ev.op = "create_enemy"
  /\ ev.added = 0

\* C2 (as claimed): once game_over_lose() has been called the loop is never
\* running again and new_game() is never invoked.
C2_LostIsTerminal == lost => (~running /\ ev.op # "new_game")

\* C3 (as claimed): a create_enemy callback runs only at the level at which
\* it was scheduled; none scheduled before a level transition runs after it.
C3_NoStaleSpawnCallback ==
  (ev.op = "create_enemy") => (ev.sched_level = level)

\* C4 (as claimed): a create_enemy callback that runs after the session was
\* lost adds no enemy and schedules no further callback.
C4_SpawnerIdleAfterLoss ==
  (ev.op = "create_enemy" /\ ev.lost_before) =>
     (ev.added = 0 /\ ev.scheduled = 0 /\ Len(enemies) = ev.count_before)

\* C5 (as claimed): a frame that starts with an enemy within the padded
\* collision radius of the player calls game_over_lose() exactly once.
C5_LoseExactlyOnce ==
  (ev.op = "tick" /\ ev.hit_at_start) => (ev.lose_calls = 1)

\* C6 (as claimed): in a frame in which game_over_lose() is called, the enemy
\* that detected the hit did not move in that update and no entity moved
\* after the call.
C6_NoMovementAfterLose ==
  (ev.op = "tick" /\ ev.lose_calls > 0) =>
     (~ev.hitter_moved /\ ~ev.moved_after_lose)

\* C7: game_over_win() is called exactly once per level: a frame whose
\* Player.update finds the player inside Home (boundary included) calls it
\* once and leaves one pending new_game callback, and no level sees a second
\* call or a second pending new_game.
C7_WinOncePerLevel ==
  /\ wins <= 1
  /\ Pending(timers, "new_game") <= 1
  /\ (ev.op = "tick" /\ ev.home_at_update) =>
        (ev.win_calls = 1 /\ wins = 1 /\ Pending(timers, "new_game") = 1)

\* C7 witness: at the second level, a frame has signalled the win with the
\* player standing exactly on Home's left edge.
C7_Witness ==
  /\ ev.op = "tick"
  /\ ev.win_calls = 1
  /\ level = InitLevel + 1
  /\ 2 * player.x = 2 * HomeX - HomeSize

\* C8 (as claimed): a Player.update that finds the player inside Home leaves
\* the player's position and the waypoint's active flag as they were.
C8_WinStopsMovement ==
  (ev.op = "tick" /\ ev.home_at_update) =>
     (~ev.player_moved /\ ~ev.waypoint_changed)

\* C9: a create_enemy callback that finds count >= 3 * level leaves the
\* collection unchanged and schedules nothing; at the session's first level
\* the single chain is pending until the collection is full and from then on
\* no spawn callback is pending (and there is no 4th enemy at level 1).
C9_CapacityEndsChain ==
  /\ (ev.op = "create_enemy" /\ ev.count_before >= Capacity) =>
        (ev.added = 0 /\ ev.scheduled = 0 /\ Len(enemies) = ev.count_before)
  /\ (started /\ level = InitLevel) =>
        \/ Pending(timers, "create_enemy") = 1 /\ Len(enemies) <= Capacity
        \/ Pending(timers, "create_enemy") = 0 /\ Len(enemies) = Capacity

\* C9 witness: at level 1 the callback after the third enemy has run, added
\* nothing and left no spawn callback pending.
C9_Witness ==
  /\ level = 1
  /\ ev.op = "create_enemy"
  /\ ev.count_before = 3
  /\ Len(enemies) = 3
  /\ Pending(timers, "create_enemy") = 0

\* C10: when new_game() reaches its first create_enemy() the enemy collection
\* is empty and no enemy of the previous level is registered as an element.
C10_NewLevelStartsEmpty ==
  (ev.op = "new_game") =>
     (ev.pre_spawn_enemies = 0 /\ ev.pre_spawn_registered = 0)

\* C10 witness: new_game() has run on a session that held enemies.
C10_Witness ==
  /\ ev.op = "new_game"
  /\ ev.count_before >= 2
  /\ ev.pre_spawn_enemies = 0

\* (x, y) lies on the screen's boundary
OnBoundary(x, y) ==
  \/ x \in {0, ScreenWidth} /\ y \in 0..ScreenHeight
  \/ y \in {0, ScreenHeight} /\ x \in 0..ScreenWidth

\* the enemies the last operation added: the last ev.added of the collection
JustAdded == {i \in 1..Len(enemies) : i > Len(enemies) - ev.added}

\* C18: every enemy is on the screen's boundary at the moment the spawner
\* adds it to the session, not at its constructor's random position.
C18_SpawnOnBoundary ==
  \A i \in JustAdded : OnBoundary(enemies[i].x, enemies[i].y)

\* C18 witness: a spawn callback has just added an enemy on the right edge.
C18_Witness ==
  /\ ev.op = "create_enemy"
  /\ ev.added = 1
  /\ enemies[Len(enemies)].x = ScreenWidth

\* C19: whenever a callback or frame begins or ends, the generator's level
\* equals the session's level and both are at least the level the session
\* was created with.
C19_GeneratorLevelMirrorsSession ==
  /\ gen_level = level
  /\ level >= InitLevel

\* C19 witness: a spawn callback has added an enemy after a level transition.
C19_Witness ==
  /\ level = InitLevel + 1
  /\ ev.op = "create_enemy"
  /\ ev.added = 1

\* pending spawn callbacks that were scheduled at the current level
PendingAtLevel ==
  Cardinality({i \in 1..Len(timers) :
                 timers[i].cb = "create_enemy" /\ timers[i].sched_level = level})

\* C20: when new_game() returns the collection holds exactly two enemies,
\* both created by it, and it has scheduled two spawn callbacks for the new
\* level; the session's first start_game() creates one enemy and one chain.
C20_TwoSpawnsPerTransition ==
  /\ (ev.op = "new_game") =>
        /\ Len(enemies) = 2
        /\ ev.added = 2
        /\ ev.scheduled = 2
        /\ PendingAtLevel = 2
        /\ \A i \in 1..2 : enemies[i].id = next_id - 3 + i
  /\ (ev.op = "start_game") =>
        /\ Len(enemies) = 1
        /\ ev.added = 1
        /\ Pending(timers, "create_enemy") = 1

\* C20 witness: new_game() has returned at the second level with its two
\* enemies and two chains.
C20_Witness ==
  /\ ev.op = "new_game"
  /\ level = InitLevel + 1
  /\ Len(enemies) = 2
  /\ PendingAtLevel = 2

\* the player's position after start_game()
AtStart == player = [x |-> PlayerStartX, y |-> PlayerStartY]

\* C11, one step: the level changes only by new_game() and only by one;
\* new_game() leaves the session playing with the player at the start; the
\* callback of a win stays pending until new_game() runs, and only a win
\* adds one.
C11_Step ==
  /\ level' \in {level, level + 1}
  /\ (level' # level) => ev'.op = "new_game"
  /\ (ev'.op = "new_game") =>
        /\ level' = level + 1
        /\ running' /\ ~faulted'
        /\ AtStart'
        /\ Pending(timers, "new_game") = 1
        /\ Pending(timers', "new_game") = 0
  /\ (Pending(timers', "new_game") < Pending(timers, "new_game")) =>
        ev'.op = "new_game"
  /\ (Pending(timers', "new_game") > Pending(timers, "new_game")) =>
        /\ ev'.op = "tick"
        /\ ev'.win_calls = 1
        /\ Pending(timers', "new_game") = Pending(timers, "new_game") + 1

\* C11: every game_over_win() is followed by exactly one new_game(), which
\* raises the level by exactly one and returns the session to Playing with
\* the loop running and the player at (50, screen_height // 2); the level
\* never decreases and never skips a value.
C11_WinAdvancesOneLevel ==
  /\ [][C11_Step]_vars
  /\ (Pending(timers, "new_game") = 1 /\ level < MaxLevel)
        ~> (ev.op = "new_game" /\ level = ev.level_before + 1 /\ running /\ AtStart)

\* C11 witness: new_game() has run after a win at the first level.
C11_Witness ==
  /\ ev.op = "new_game"
  /\ ev.level_before = InitLevel
  /\ level = InitLevel + 1
  /\ running
  /\ AtStart

\* the spawn chain has reached the level's capacity and halted
ChainHalted ==
  /\ Len(enemies) = Capacity
  /\ Pending(timers, "create_enemy") = 0

\* C12: in a level in which the session neither wins nor loses, the enemy
\* count eventually equals 3 * level and the chain has halted: no spawn
\* callback is pending and the count stays as it is.
C12_ChainReachesCapacity ==
  /\ (started /\ wins = 0 /\ ~lost) ~> (ChainHalted \/ wins > 0 \/ lost)
  /\ [][(ChainHalted /\ level' = level) => ChainHalted']_vars

\* C12 witness: the second level's chains have filled it to six enemies and
\* halted, with neither a win nor a loss.
C12_Witness ==
  /\ level = InitLevel + 1
  /\ ChainHalted
  /\ wins = 0
  /\ ~lost

\* the player's step in the last frame
LastStep == StepOf(PlayerSpeed, ev.dt)

\* the last frame ran Player.update with an active waypoint, outside Home
WaypointFrame ==
  /\ ev.op = "tick"
  /\ waypoint.active \/ ev.waypoint_changed
  /\ ~ev.home_at_update

\* C13 as stated: the waypoint is deactivated exactly when the distance
\* before the move is at most speed * dt.
C13_PreMoveArrival ==
  WaypointFrame => (ev.waypoint_changed <=> ev.pre_dist_sq <= Sq(LastStep))

\* C13, amended: with an active waypoint and the player outside Home, the
\* waypoint is deactivated in that frame exactly when the distance from the
\* player to the waypoint after the move is at most speed * dt.
C13_PostMoveArrival ==
  WaypointFrame =>
    (~waypoint.active <=>
       DistSq(player.x, player.y, waypoint.x, waypoint.y) <= Sq(LastStep))

\* C13 witness: the waypoint was deactivated in a frame that began farther
\* from it than speed * dt.
C13_Witness ==
  /\ WaypointFrame
  /\ ~waypoint.active
  /\ ev.pre_dist_sq > Sq(LastStep)
  /\ DistSq(player.x, player.y, waypoint.x, waypoint.y) <= Sq(LastStep)

\* C14: when an enemy begins its update exactly on its target, the update
\* raises no fault and the enemy's position is unchanged in that frame.
C14_CoincidentIsHarmless ==
  (ev.op = "tick" /\ ev.coincident) => (~faulted /\ ~ev.coincident_moved)

\* C15: update(dt = 0) of every entity returns normally and leaves the
\* entity's position unchanged.
C15_NullTimeIsIdentity ==
  (ev.op = "tick" /\ ev.dt = 0) =>
     (~faulted /\ ~ev.player_moved /\ ~ev.enemy_moved)

\* dt * speed^2 <= radius^2, with dt in milliseconds
SmallThreshold(e, dt) == dt * Sq(e.speed) <= Sq(e.radius) * MsPerSecond

\* C16: in one update of a FencingEnemy whose arrival threshold satisfies
\* dt * speed^2 <= radius^2 the corner index advances at most once and the
\* call ends with one movement step.
C16_OneAdvanceThenMove ==
  (ev.op = "tick") =>
     \A i \in 1..Len(enemies) : \A p \in ev.arrivals :
        (p[1] = enemies[i].id /\ SmallThreshold(enemies[i], ev.dt)) =>
           (p[2] <= 1 /\ enemies[i].id \in ev.stepped)

\* the four corner offsets in index order 0..3
CornerOffsets(r) == << <<-r, -r>>, <<r, -r>>, <<r, r>>, <<-r, r>> >>

FencingIndices == {i \in 1..Len(enemies) : enemies[i].kind = "Fencing"}

\* C17, every state: the index is in 0..3 and selects Home plus the offset
C17_Table ==
  \A i \in FencingIndices :
     /\ enemies[i].corner \in 0..3
     /\ \A c \in 0..3 :
          /\ CornerX(enemies[i], c) = HomeX + CornerOffsets(enemies[i].radius)[c + 1][1]
          /\ CornerY(enemies[i], c) = HomeY + CornerOffsets(enemies[i].radius)[c + 1][2]

\* C17, every frame: radius and direction are kept and n arrivals change
\* the index by n times the enemy's own step, + 1 or - 1 modulo 4
C17_Step ==
  (ev'.op = "tick") =>
     \A i \in FencingIndices :
        /\ enemies'[i].radius = enemies[i].radius
        /\ enemies'[i].dir = enemies[i].dir
        /\ \A p \in ev'.arrivals :
             (p[1] = enemies[i].id /\ p[2] < 4) =>
                enemies'[i].corner =
                  (enemies[i].corner + p[2] * (IF enemies[i].dir THEN -1 ELSE 1)) % 4

====
